---- MODULE Spec2Model ----
(***************************************************************************)
(* Model of 02_airflow/dags/ingest_live_hourly_weather_dag.py: the DAG     *)
(* current_weather_owm_dag, its six task instances per run, the two        *)
(* python callables and the environment they act on (the worker's local    *)
(* directory, the cloud bucket, the destination table).                    *)
(*                                                                         *)
(* Numbers are typed as JSON/pandas type them: an integer [t, v] or a      *)
(* float64 [t, milli] in thousandths.  A path or an object name is the     *)
(* tuple of the parts its f-string joins.                                  *)
(***************************************************************************)
EXTENDS Integers, Sequences, FiniteSets, Bags, TLC

\* ------------------------------------------------------------------ bounds
MaxRuns == 2            \* DAG runs created in one behaviour
MaxSteps == 4           \* single task executions in one behaviour of TaskSpec

\* --------------------------------------------------------------- constants
retries == 1
max_active_runs == 1
LAT == 39847
LON == 0 - 104656
AIRFLOW_HOME == "/opt/airflow/"
BUCKET == "GCP_GCS_BUCKET"
BIGQUERY_DATASET == "energy_data"

\* ----------------------------------------------------------------- numbers
JInt(v) == [t |-> "int", v |-> v, milli |-> 0]
JFloat(m) == [t |-> "float", v |-> 0, milli |-> m]

\* Series.astype('float') / a pa.float64() field: an integer becomes the
\* float64 of the same value, a float is kept
astype_float(x) == IF x.t = "int" THEN JFloat(x.v * 1000) ELSE x

\* the value of a number in thousandths, whatever its type
Milli(x) == IF x.t = "int" THEN x.v * 1000 ELSE x.milli

\* pd.to_datetime(dt, unit='s').tz_localize('UTC') stored in a
\* pa.timestamp('s') column: the instant dt seconds after the epoch
to_timestamp(dt) ==
    [epoch_s |-> IF dt.t = "int" THEN dt.v ELSE dt.milli \div 1000, unit |-> "s"]

\* ------------------------------------------------------------ logical dates
\* Logical dates of DAG runs: the hourly schedule gives minute 0, a manual
\* trigger any minute.  Two of them fall into the same hour.
LogicalDates ==
    { [date |-> <<2022, 4, 15>>, hour |-> 5, minute |-> 0],
      [date |-> <<2022, 4, 15>>, hour |-> 5, minute |-> 20],
      [date |-> <<2022, 4, 15>>, hour |-> 6, minute |-> 0] }

\* mutant: the suffix is the date without the hour
DATASET_FILE_SUFFIX_daily(ld) == <<ld.date[1], ld.date[2], ld.date[3], 0>>

\* "{{ logical_date.strftime('%Y-%m-%d-%H') }}" rendered for one run
DATASET_FILE_SUFFIX(ld) == <<ld.date[1], ld.date[2], ld.date[3], ld.hour>>

\* ------------------------------------------------------------ API responses
MainFields == {"temp", "feels_like", "temp_min", "temp_max", "pressure", "humidity"}

ValidMain ==
    [temp |-> JFloat(10000), feels_like |-> JFloat(9500), temp_min |-> JFloat(8000),
     temp_max |-> JFloat(12000), pressure |-> JInt(1012), humidity |-> JInt(55)]

ValidCoord == [lon |-> JFloat(LON), lat |-> JFloat(LAT)]

ValidDoc == [main |-> ValidMain, coord |-> ValidCoord, dt |-> JInt(1650000000)]

\* a JSON object without one of its keys
Without(obj, k) == [x \in (DOMAIN obj) \ {k} |-> obj[x]]

\* the documents that miss one expected field
MissingTop == { Without(ValidDoc, k) : k \in {"main", "coord", "dt"} }
MissingMain == { [ValidDoc EXCEPT !.main = Without(ValidMain, k)] : k \in MainFields }
MissingDocs == MissingTop \cup MissingMain

IsValidDoc(j) ==
    /\ {"main", "coord", "dt"} \subseteq DOMAIN j
    /\ MainFields \subseteq DOMAIN j.main
    /\ {"lon", "lat"} \subseteq DOMAIN j.coord

\* what requests.get may return: a status code and a body that is JSON or not
Response(code, isjson, doc) == [status_code |-> code, isjson |-> isjson, doc |-> doc]
ErrorDoc == [cod |-> JInt(401)]
Responses ==
    { Response(200, TRUE, ValidDoc),
      Response(200, FALSE, ErrorDoc),
      Response(204, TRUE, ValidDoc),
      Response(404, TRUE, ErrorDoc) }

\* ------------------------------------------------------------- environment
\* fs: local path -> file content, gcs: <<bucket, object name>> -> content,
\* bq: the destination table (absent until created) and its rows in load order
JsonFile(doc) == [fmt |-> "json", doc |-> doc, rows |-> <<>>]
EmptyFile == [fmt |-> "empty", doc |-> <<>>, rows |-> <<>>]
ParquetFile(rows) == [fmt |-> "parquet", doc |-> <<>>, rows |-> rows]

Env(f, g, b) == [fs |-> f, gcs |-> g, bq |-> b]

\* d with key k bound to v (created or overwritten)
Put(d, k, v) == (k :> v) @@ d
\* d without the keys ks
Remove(d, ks) == [x \in (DOMAIN d) \ ks |-> d[x]]

\* --------------------------------------------------------- callable results
NoErr == [type |-> "none", code |-> 0]
Err(type, code) == [type |-> type, code |-> code]

\* what one execution of a task did: the environment it leaves, whether it
\* returned normally, the error it raised, the HTTP requests it made and the
\* local paths and object names it read, wrote and deleted
Result(env, ok, err, nreq, reads, writes, deletes) ==
    [env |-> env, ok |-> ok, err |-> err, nreq |-> nreq,
     reads |-> reads, writes |-> writes, deletes |-> deletes]

\* mutant: every 2xx status is taken for success
download_accepting_2xx(lat, lon, outfile, r, env) ==
    IF r.status_code >= 200 /\ r.status_code < 300
    THEN IF r.isjson
         THEN Result([env EXCEPT !.fs = Put(env.fs, outfile, JsonFile(r.doc))],
                     TRUE, NoErr, 1, {}, {outfile}, {})
         ELSE Result([env EXCEPT !.fs = Put(env.fs, outfile, EmptyFile)],
                     FALSE, Err("JSONDecodeError", 0), 1, {}, {outfile}, {})
    ELSE Result(env, FALSE, Err("ValueError", r.status_code), 1, {}, {}, {})

\* ------------------------------------------------- download_current_weather_data
\* One requests.get, answered by r.  Status 200: the outfile is opened for
\* writing (created or truncated), then r.json() is dumped into it; a body
\* that is no JSON makes r.json() raise with the file already truncated.
\* Any other status: ValueError with the status code, nothing opened.
download_current_weather_data(lat, lon, outfile, r, env) ==
    IF r.status_code = 200
    THEN IF r.isjson
         THEN Result([env EXCEPT !.fs = Put(env.fs, outfile, JsonFile(r.doc))],
                     TRUE, NoErr, 1, {}, {outfile}, {})
         ELSE Result([env EXCEPT !.fs = Put(env.fs, outfile, EmptyFile)],
                     FALSE, Err("JSONDecodeError", 0), 1, {}, {outfile}, {})
    ELSE Result(env, FALSE, Err("ValueError", r.status_code), 1, {}, {}, {})

\* ----------------------------------------------------------------- upload_to_gcs
\* gcloud_helpers.upload_to_gcs: the local file's bytes are copied to the
\* named object, which is created or overwritten; a missing local file or an
\* unreachable bucket fails the upload and changes nothing.
upload_to_gcs(bucket, object_name, local_file, reachable, env) ==
    IF local_file \notin DOMAIN env.fs
    THEN Result(env, FALSE, Err("FileNotFoundError", 0), 0, {}, {}, {})
    ELSE IF ~reachable
    THEN Result(env, FALSE, Err("GoogleCloudError", 0), 0, {local_file}, {}, {})
    ELSE Result([env EXCEPT !.gcs = Put(env.gcs, <<bucket, object_name>>, env.fs[local_file])],
                TRUE, NoErr, 0, {local_file}, {<<bucket, object_name>>}, {})

\* ---------------------------------------------------------- extract_weather_data
\* open(path): the file object of an existing file
open(path, fs) ==
    IF path \in DOMAIN fs
    THEN [ok |-> TRUE, val |-> [pytype |-> "TextIOWrapper", content |-> fs[path]], err |-> NoErr]
    ELSE [ok |-> FALSE, val |-> [pytype |-> "NoneType", content |-> EmptyFile],
          err |-> Err("FileNotFoundError", 0)]

\* f.read(): the text of an open file
read(f) == [pytype |-> "str", content |-> f.content]

\* json.loads(s): s must be str, bytes or bytearray, anything else (a file
\* object among them) is a TypeError; a text that is no JSON document is a
\* JSONDecodeError
json_loads(s) ==
    IF s.pytype \notin {"str", "bytes", "bytearray"}
    THEN [ok |-> FALSE, val |-> <<>>, err |-> Err("TypeError", 0)]
    ELSE IF s.content.fmt # "json"
    THEN [ok |-> FALSE, val |-> <<>>, err |-> Err("JSONDecodeError", 0)]
    ELSE [ok |-> TRUE, val |-> s.content.doc, err |-> NoErr]

\* The first key the frame construction misses, in evaluation order:
\* j['main'], then assign's j['dt'] and j['coord'], then the six casts, then
\* the schema's lon and lat columns in Table.from_pandas; "" if none
MissingKey(j) ==
    IF "main" \notin DOMAIN j THEN "main"
    ELSE IF "dt" \notin DOMAIN j THEN "dt"
    ELSE IF "coord" \notin DOMAIN j THEN "coord"
    ELSE IF "temp" \notin DOMAIN j.main THEN "temp"
    ELSE IF "feels_like" \notin DOMAIN j.main THEN "feels_like"
    ELSE IF "temp_min" \notin DOMAIN j.main THEN "temp_min"
    ELSE IF "temp_max" \notin DOMAIN j.main THEN "temp_max"
    ELSE IF "pressure" \notin DOMAIN j.main THEN "pressure"
    ELSE IF "humidity" \notin DOMAIN j.main THEN "humidity"
    ELSE IF "lon" \notin DOMAIN j.coord THEN "lon"
    ELSE IF "lat" \notin DOMAIN j.coord THEN "lat"
    ELSE ""

\* the one row of the table built from j under the nine-field schema
TableRow(j) ==
    [temp |-> astype_float(j.main.temp),
     feels_like |-> astype_float(j.main.feels_like),
     temp_min |-> astype_float(j.main.temp_min),
     temp_max |-> astype_float(j.main.temp_max),
     pressure |-> astype_float(j.main.pressure),
     humidity |-> astype_float(j.main.humidity),
     timestamp |-> to_timestamp(j.dt),
     lon |-> astype_float(j.coord.lon),
     lat |-> astype_float(j.coord.lat)]

\* the statements after the parse: frame, table, pq.write_table
WriteParquet(j, file_suffix, env) ==
    LET src == <<AIRFLOW_HOME, file_suffix, "json">>
        dst == <<AIRFLOW_HOME, file_suffix, "parquet">>
    IN IF MissingKey(j) # ""
       THEN Result(env, FALSE, Err("KeyError", 0), 0, {src}, {}, {})
       ELSE Result([env EXCEPT !.fs = Put(env.fs, dst, ParquetFile(<<TableRow(j)>>))],
                   TRUE, NoErr, 0, {src}, {dst}, {})

\* mutant: the text of the file is parsed, and a document that misses a field
\* is written as a table without rows
extract_defaulting(file_suffix, env) ==
    LET src == <<AIRFLOW_HOME, file_suffix, "json">>
        dst == <<AIRFLOW_HOME, file_suffix, "parquet">>
        f == open(src, env.fs)
        j == json_loads(read(f.val))
    IN IF ~f.ok THEN Result(env, FALSE, f.err, 0, {}, {}, {})
       ELSE IF ~j.ok THEN Result(env, FALSE, j.err, 0, {src}, {}, {})
       ELSE IF MissingKey(j.val) # ""
       THEN Result([env EXCEPT !.fs = Put(env.fs, dst, ParquetFile(<<>>))],
                   FALSE, Err("KeyError", 0), 0, {src}, {dst}, {})
       ELSE WriteParquet(j.val, file_suffix, env)

\* open the raw file, j = json.loads(f) on the file object itself, then the
\* frame and the write
extract_weather_data(file_suffix, env) ==
    LET src == <<AIRFLOW_HOME, file_suffix, "json">>
        f == open(src, env.fs)
        j == json_loads(f.val)
    IN IF ~f.ok THEN Result(env, FALSE, f.err, 0, {}, {}, {})
       ELSE IF ~j.ok THEN Result(env, FALSE, j.err, 0, {src}, {}, {})
       ELSE WriteParquet(j.val, file_suffix, env)

\* mutant: rm -rf of the worker's directory
rm_everything(p1, p2, env) ==
    Result([env EXCEPT !.fs = <<>>], TRUE, NoErr, 0, {}, {}, DOMAIN env.fs)

\* ------------------------------------------------------------------ cleanup_task
\* rm p1 p2: each of the two files that exists is removed; rm exits non-zero,
\* and the BashOperator fails, if one of them does not exist
rm(p1, p2, env) ==
    LET there == {p1, p2} \cap DOMAIN env.fs
    IN Result([env EXCEPT !.fs = Remove(env.fs, there)],
              there = {p1, p2},
              IF there = {p1, p2} THEN NoErr ELSE Err("AirflowException", 1),
              0, {}, {}, there)

\* mutant: the load replaces the table's rows (WRITE_TRUNCATE)
gcs_to_bigquery_truncating(bucket, source_objects, write_disposition, create_disposition, reachable, env) ==
    LET key == <<bucket, source_objects>>
    IN IF ~reachable \/ key \notin DOMAIN env.gcs
       THEN Result(env, FALSE, Err("GoogleCloudError", 0), 0, {}, {}, {})
       ELSE IF env.gcs[key].fmt # "parquet"
               \/ (~env.bq.exists /\ create_disposition # "CREATE_IF_NEEDED")
       THEN Result(env, FALSE, Err("BadRequest", 0), 0, {key}, {}, {})
       ELSE Result([env EXCEPT !.bq = [exists |-> TRUE, rows |-> env.gcs[key].rows]],
                   TRUE, NoErr, 0, {key}, {}, {})

\* --------------------------------------------------------------- load_to_bq_task
\* GCSToBigQueryOperator with source_format parquet, WRITE_APPEND and
\* CREATE_IF_NEEDED: the rows of the source object are added after the rows
\* the table holds, a missing table is created; a missing or non-parquet
\* object, or an unreachable service, fails the load and changes nothing.
gcs_to_bigquery(bucket, source_objects, write_disposition, create_disposition, reachable, env) ==
    LET key == <<bucket, source_objects>>
    IN IF ~reachable \/ key \notin DOMAIN env.gcs
       THEN Result(env, FALSE, Err("GoogleCloudError", 0), 0, {}, {}, {})
       ELSE IF env.gcs[key].fmt # "parquet"
               \/ (~env.bq.exists /\ create_disposition # "CREATE_IF_NEEDED")
       THEN Result(env, FALSE, Err("BadRequest", 0), 0, {key}, {}, {})
       ELSE Result([env EXCEPT !.bq = [exists |-> TRUE,
                                       rows |-> IF write_disposition = "WRITE_APPEND"
                                                THEN env.bq.rows \o env.gcs[key].rows
                                                ELSE env.gcs[key].rows]],
                   TRUE, NoErr, 0, {key}, {}, {})

\* ------------------------------------------------------------ the DAG's tasks
\* the six stages by the names of their operators, in the order of the chain
\*   download_dataset_task >> local_raw_to_gcs_task >> extract_data_task
\*     >> local_extracted_to_gcs_task >> load_to_bq_task >> cleanup_task
Chain ==
    <<"download_dataset_task", "local_raw_to_gcs_task", "extract_data_task",
      "local_extracted_to_gcs_task", "load_to_bq_task", "cleanup_task">>

Tasks == { Chain[i] : i \in DOMAIN Chain }
Pos(t) == CHOOSE i \in DOMAIN Chain : Chain[i] = t

\* mutant: the chain starts at extract_data_task, the first two tasks unchained
Upstream_Unchained(t) == IF Pos(t) <= 2 THEN {} ELSE {Chain[Pos(t) - 1]}

\* a >> b: b's only upstream task is a
Upstream(t) == IF Pos(t) = 1 THEN {} ELSE {Chain[Pos(t) - 1]}

\* the templated arguments of each operator, rendered for logical date ld
download_dataset_task(ld) ==
    [lat |-> LAT, lon |-> LON,
     outfile |-> <<AIRFLOW_HOME, DATASET_FILE_SUFFIX(ld), "json">>]

local_raw_to_gcs_task(ld) ==
    [bucket |-> BUCKET,
     object_name |-> <<"raw/live_weather", LAT, LON, DATASET_FILE_SUFFIX(ld), "json">>,
     local_file |-> <<AIRFLOW_HOME, DATASET_FILE_SUFFIX(ld), "json">>]

extract_data_task(ld) == [file_suffix |-> DATASET_FILE_SUFFIX(ld)]

local_extracted_to_gcs_task(ld) ==
    [bucket |-> BUCKET,
     object_name |-> <<"staged/live_weather", LAT, LON, DATASET_FILE_SUFFIX(ld), "parquet">>,
     local_file |-> <<AIRFLOW_HOME, DATASET_FILE_SUFFIX(ld), "parquet">>]

cleanup_task(ld) ==
    [rm1 |-> <<AIRFLOW_HOME, DATASET_FILE_SUFFIX(ld), "json">>,
     rm2 |-> <<AIRFLOW_HOME, DATASET_FILE_SUFFIX(ld), "parquet">>]

load_to_bq_task(ld) ==
    [bucket |-> BUCKET,
     source_objects |-> <<"staged/live_weather", LAT, LON, DATASET_FILE_SUFFIX(ld), "parquet">>,
     destination_project_dataset_table |-> <<BIGQUERY_DATASET, "hourly_updated_weather">>,
     source_format |-> "parquet",
     write_disposition |-> "WRITE_APPEND",
     create_disposition |-> "CREATE_IF_NEEDED"]

\* What the outside world decides in one execution: the API's answer to the
\* request and whether the cloud services answer
NoResponse == Response(0, FALSE, ErrorDoc)
Inputs(t) ==
    IF t = "download_dataset_task"
    THEN { [r |-> r, reachable |-> TRUE] : r \in Responses }
    ELSE IF t \in {"local_raw_to_gcs_task", "local_extracted_to_gcs_task", "load_to_bq_task"}
    THEN { [r |-> NoResponse, reachable |-> b] : b \in BOOLEAN }
    ELSE { [r |-> NoResponse, reachable |-> TRUE] }

\* one execution of task t of the run with logical date ld
Execute(t, ld, in, env) ==
    CASE t = "download_dataset_task" ->
           LET a == download_dataset_task(ld)
           IN download_current_weather_data(a.lat, a.lon, a.outfile, in.r, env)
      [] t = "local_raw_to_gcs_task" ->
           LET a == local_raw_to_gcs_task(ld)
           IN upload_to_gcs(a.bucket, a.object_name, a.local_file, in.reachable, env)
      [] t = "extract_data_task" ->
           extract_weather_data(extract_data_task(ld).file_suffix, env)
      [] t = "local_extracted_to_gcs_task" ->
           LET a == local_extracted_to_gcs_task(ld)
           IN upload_to_gcs(a.bucket, a.object_name, a.local_file, in.reachable, env)
      [] t = "load_to_bq_task" ->
           LET a == load_to_bq_task(ld)
           IN gcs_to_bigquery(a.bucket, a.source_objects, a.write_disposition,
                              a.create_disposition, in.reachable, env)
      [] t = "cleanup_task" ->
           LET a == cleanup_task(ld)
           IN rm(a.rm1, a.rm2, env)

\* ------------------------------------------------------------------- state
VARIABLES
    fs,       \* the worker's local files
    gcs,      \* the bucket's objects
    bq,       \* the destination table
    runs,     \* the DAG runs, in the order they were created
    last,     \* the latest execution of a task: what ran, on what, with what result
    steps     \* the number of task executions so far

vars == <<fs, gcs, bq, runs, last, steps>>

TheEnv == Env(fs, gcs, bq)

\* an execution record
Exec(t, ld, in, res) ==
    [task |-> t, ld |-> ld, in |-> in, ok |-> res.ok, err |-> res.err,
     nreq |-> res.nreq, reads |-> res.reads, writes |-> res.writes,
     deletes |-> res.deletes]

NoExec ==
    [task |-> "none", ld |-> CHOOSE ld \in LogicalDates : TRUE,
     in |-> [r |-> NoResponse, reachable |-> TRUE], ok |-> FALSE, err |-> NoErr,
     nreq |-> 0, reads |-> {}, writes |-> {}, deletes |-> {}]

\* a row loaded before the first behaviour step
OldRow == [TableRow(ValidDoc) EXCEPT !.timestamp = to_timestamp(JInt(1649996400))]

NoTable == [exists |-> FALSE, rows |-> <<>>]
FreshEnv == Env(<<>>, <<>>, NoTable)

\* the environment an earlier run for 05:00 left whose extract task failed:
\* its raw file on disk, its raw object in the bucket, and a table with a row
LeftoverEnv ==
    LET ld == CHOOSE x \in LogicalDates : x.hour = 5 /\ x.minute = 0
    IN Env(Put(<<>>, download_dataset_task(ld).outfile, JsonFile(ValidDoc)),
           Put(<<>>, <<BUCKET, local_raw_to_gcs_task(ld).object_name>>, JsonFile(ValidDoc)),
           [exists |-> TRUE, rows |-> <<OldRow>>])

\* the deployment: no local file, no object, no table
Init ==
    /\ fs = FreshEnv.fs /\ gcs = FreshEnv.gcs /\ bq = FreshEnv.bq
    /\ runs = <<>>
    /\ last = NoExec
    /\ steps = 0

\* ---------------------------------------------------------------- DAG runs
TaskStates == {"none", "running", "success", "up_for_retry", "failed", "upstream_failed"}
Finished == {"success", "failed", "upstream_failed"}

NewRun(ld) ==
    [ld |-> ld, state |-> "queued",
     ti |-> [t \in Tasks |-> "none"], tries |-> [t \in Tasks |-> 0]]

Active == { i \in DOMAIN runs : runs[i].state = "running" }

\* mutant: the trigger rule all_done
TriggerRuleAllDone(ti, t) == \A u \in Upstream(t) : ti[u] \in Finished

\* the default trigger rule all_success: every upstream task has succeeded
TriggerRuleMet(ti, t) == \A u \in Upstream(t) : ti[u] = "success"

\* mutant: one retry too many
AfterExecution_OneMore(ok, tries) ==
    IF ok THEN "success" ELSE IF tries <= retries + 1 THEN "up_for_retry" ELSE "failed"

\* the state of a task instance whose execution ended: success, a retry while
\* the tries made do not exceed default_args' retries, else failed
AfterExecution(ok, tries) ==
    IF ok THEN "success" ELSE IF tries <= retries THEN "up_for_retry" ELSE "failed"

\* the scheduler (or a manual trigger) creates the run of a logical date
CreateRun(ld) ==
    /\ Len(runs) < MaxRuns
    /\ \A i \in DOMAIN runs : runs[i].ld # ld
    /\ runs' = Append(runs, NewRun(ld))
    /\ UNCHANGED <<fs, gcs, bq, last, steps>>

\* mutant: a queued run starts whatever else is running
StartRun_Unlimited(i) ==
    /\ runs[i].state = "queued"
    /\ runs' = [runs EXCEPT ![i].state = "running"]
    /\ UNCHANGED <<fs, gcs, bq, last, steps>>

\* a queued run starts while fewer than max_active_runs runs are running
StartRun(i) ==
    /\ runs[i].state = "queued"
    /\ Cardinality(Active) < max_active_runs
    /\ runs' = [runs EXCEPT ![i].state = "running"]
    /\ UNCHANGED <<fs, gcs, bq, last, steps>>

\* a task instance whose trigger rule is met starts its next try
StartTask(i, t) ==
    /\ runs[i].state = "running"
    /\ runs[i].ti[t] \in {"none", "up_for_retry"}
    /\ TriggerRuleMet(runs[i].ti, t)
    /\ runs' = [runs EXCEPT ![i].ti[t] = "running", ![i].tries[t] = @ + 1]
    /\ UNCHANGED <<fs, gcs, bq, last, steps>>

\* the running try executes the operator and ends
FinishTask(i, t, in) ==
    /\ runs[i].state = "running"
    /\ runs[i].ti[t] = "running"
    /\ LET res == Execute(t, runs[i].ld, in, TheEnv)
       IN /\ fs' = res.env.fs
          /\ gcs' = res.env.gcs
          /\ bq' = res.env.bq
          /\ last' = Exec(t, runs[i].ld, in, res)
          /\ runs' = [runs EXCEPT ![i].ti[t] = AfterExecution(res.ok, runs[i].tries[t])]
    /\ steps' = steps + 1

\* a task below a failed one is never run
UpstreamFailed(i, t) ==
    /\ runs[i].state = "running"
    /\ runs[i].ti[t] = "none"
    /\ \E u \in Upstream(t) : runs[i].ti[u] \in {"failed", "upstream_failed"}
    /\ runs' = [runs EXCEPT ![i].ti[t] = "upstream_failed"]
    /\ UNCHANGED <<fs, gcs, bq, last, steps>>

\* the run ends when every task instance has: success if all succeeded
FinishRun(i) ==
    /\ runs[i].state = "running"
    /\ \A t \in Tasks : runs[i].ti[t] \in Finished
    /\ runs' = [runs EXCEPT ![i].state =
                   IF \A t \in Tasks : runs[i].ti[t] = "success" THEN "success" ELSE "failed"]
    /\ UNCHANGED <<fs, gcs, bq, last, steps>>

Next ==
    \/ \E ld \in LogicalDates : CreateRun(ld)
    \/ \E i \in DOMAIN runs : StartRun(i)
    \/ \E i \in DOMAIN runs : \E t \in Tasks : StartTask(i, t)
    \/ \E i \in DOMAIN runs : \E t \in Tasks : \E in \in Inputs(t) : FinishTask(i, t, in)
    \/ \E i \in DOMAIN runs : \E t \in Tasks : UpstreamFailed(i, t)
    \/ \E i \in DOMAIN runs : FinishRun(i)

\* the steps of the scheduler and of the running tries of run i
RunProgress(i) ==
    \/ StartRun(i)
    \/ FinishRun(i)
    \/ \E t \in Tasks :
          \/ StartTask(i, t)
          \/ UpstreamFailed(i, t)
          \/ \E in \in Inputs(t) : FinishTask(i, t, in)

Spec == Init /\ [][Next]_vars

Progress == \E i \in DOMAIN runs : RunProgress(i)

\* the scheduler keeps scheduling and a running try ends: while some step of
\* a run is possible, one is eventually taken
FairSpec == Spec /\ WF_vars(Progress)

\* ------------------------------------------------- single task executions
\* Each operator run by itself (as `airflow tasks test` runs one task of one
\* logical date, whatever the state of the others), on an environment drawn
\* from TaskEnvs.

\* the 05:00 run's raw file holding document d, and nothing else
RawEnv(d) ==
    LET ld == CHOOSE x \in LogicalDates : x.hour = 5 /\ x.minute = 0
    IN Env(Put(<<>>, download_dataset_task(ld).outfile, JsonFile(d)), <<>>, NoTable)

\* LeftoverEnv with the 05:00 columnar file on disk and in the bucket too
StagedEnv ==
    LET ld == CHOOSE x \in LogicalDates : x.hour = 5 /\ x.minute = 0
        a == local_extracted_to_gcs_task(ld)
        pf == ParquetFile(<<TableRow(ValidDoc)>>)
    IN Env(Put(LeftoverEnv.fs, a.local_file, pf),
           Put(LeftoverEnv.gcs, <<a.bucket, a.object_name>>, pf),
           LeftoverEnv.bq)

TaskEnvs == {FreshEnv, LeftoverEnv, StagedEnv} \cup { RawEnv(d) : d \in MissingDocs }

TaskInit ==
    /\ \E e \in TaskEnvs : fs = e.fs /\ gcs = e.gcs /\ bq = e.bq
    /\ runs = <<>>
    /\ last = NoExec
    /\ steps = 0

TestTask(t, ld, in) ==
    /\ steps < MaxSteps
    /\ LET res == Execute(t, ld, in, TheEnv)
       IN /\ fs' = res.env.fs
          /\ gcs' = res.env.gcs
          /\ bq' = res.env.bq
          /\ last' = Exec(t, ld, in, res)
    /\ steps' = steps + 1
    /\ UNCHANGED runs

TestOf(t) == \E ld \in LogicalDates : \E in \in Inputs(t) : TestTask(t, ld, in)

TaskNext ==
    \/ TestOf("download_dataset_task")
    \/ TestOf("local_raw_to_gcs_task")
    \/ TestOf("extract_data_task")
    \/ TestOf("local_extracted_to_gcs_task")
    \/ TestOf("load_to_bq_task")
    \/ TestOf("cleanup_task")

TaskSpec == TaskInit /\ [][TaskNext]_vars

\* ================================================================== claims
\* a step that executes a task (in a run or by itself)
Executes(t) == steps' = steps + 1 /\ last'.task = t

JsonPath(ld) == <<AIRFLOW_HOME, DATASET_FILE_SUFFIX(ld), "json">>
ParquetPath(ld) == <<AIRFLOW_HOME, DATASET_FILE_SUFFIX(ld), "parquet">>

\* the stage order the specification names
StageOrder ==
    <<"download_dataset_task", "local_raw_to_gcs_task", "extract_data_task",
      "local_extracted_to_gcs_task", "load_to_bq_task", "cleanup_task">>
Stage(t) == CHOOSE k \in DOMAIN StageOrder : StageOrder[k] = t
Started(r, t) == r.tries[t] > 0

\* C1: in every run a stage has started only if every stage before it in the
\* order Fetch, UploadRaw, Transform, UploadStaged, Load, Cleanup has succeeded
\* in that run, and at most one stage of the run is running at any time.
C1_StrictChain ==
    \A i \in DOMAIN runs :
        LET r == runs[i]
        IN /\ \A t \in Tasks :
                Started(r, t) =>
                    \A k \in 1..(Stage(t) - 1) : r.ti[StageOrder[k]] = "success"
           /\ \A t \in Tasks : r.ti[t] \in {"running", "success", "up_for_retry", "failed"}
                                  <=> Started(r, t)
           /\ Cardinality({ t \in Tasks : r.ti[t] = "running" }) <= 1

\* the third stage is running after the first two have succeeded
C1_Witness ==
    \E i \in DOMAIN runs :
        /\ runs[i].ti["extract_data_task"] = "running"
        /\ runs[i].ti["download_dataset_task"] = "success"
        /\ runs[i].ti["local_raw_to_gcs_task"] = "success"

\* row holds the nine values of document j, the six measurements as float64
RowEquals(row, j) ==
    /\ DOMAIN row = MainFields \cup {"timestamp", "lon", "lat"}
    /\ \A k \in MainFields : row[k].t = "float" /\ Milli(row[k]) = Milli(j.main[k])
    /\ row.timestamp.epoch_s = j.dt.v
    /\ Milli(row.lon) = Milli(j.coord.lon)
    /\ Milli(row.lat) = Milli(j.coord.lat)

\* C2: whenever the Transformer has run on a raw file holding a valid
\* response, it has succeeded and the columnar file of the same suffix holds
\* exactly one row, equal to the response's fields.
C2_TransformSucceeds ==
    (/\ last.task = "extract_data_task"
     /\ JsonPath(last.ld) \in DOMAIN fs
     /\ fs[JsonPath(last.ld)].fmt = "json"
     /\ IsValidDoc(fs[JsonPath(last.ld)].doc))
    => /\ last.ok
       /\ ParquetPath(last.ld) \in DOMAIN fs
       /\ fs[ParquetPath(last.ld)].fmt = "parquet"
       /\ Len(fs[ParquetPath(last.ld)].rows) = 1
       /\ RowEquals(fs[ParquetPath(last.ld)].rows[1], fs[JsonPath(last.ld)].doc)

\* C3: an execution of the Fetcher whose response has a status other than 200
\* fails with a ValueError carrying that status, has made one request, and
\* leaves every local file as it was.
C3_Non200WritesNothing ==
    [][(Executes("download_dataset_task") /\ last'.in.r.status_code # 200)
        => /\ ~last'.ok
           /\ last'.err = Err("ValueError", last'.in.r.status_code)
           /\ last'.nreq = 1
           /\ last'.writes = {}
           /\ fs' = fs]_vars

\* the Fetcher got a 204 and failed
C3_Witness ==
    /\ last.task = "download_dataset_task"
    /\ last.in.r.status_code = 204
    /\ ~last.ok
    /\ last.err.code = 204

\* C4: an execution of the Transformer on a raw JSON file that misses main,
\* coord, dt or one of the six fields of main fails and leaves the local
\* files, the columnar file among them, as they were.
C4_MissingFieldWritesNothing ==
    [][(/\ Executes("extract_data_task")
        /\ JsonPath(last'.ld) \in DOMAIN fs
        /\ fs[JsonPath(last'.ld)].fmt = "json"
        /\ ~IsValidDoc(fs[JsonPath(last'.ld)].doc))
        => /\ ~last'.ok
           /\ last'.writes = {}
           /\ fs' = fs]_vars

\* the Transformer failed on a raw file that misses a field of main
C4_Witness ==
    /\ last.task = "extract_data_task"
    /\ ~last.ok
    /\ JsonPath(last.ld) \in DOMAIN fs
    /\ fs[JsonPath(last.ld)].fmt = "json"
    /\ fs[JsonPath(last.ld)].doc \in MissingMain

\* the rows of a sequence as a bag
BagOfSeq(q) ==
    [x \in { q[k] : k \in DOMAIN q } |-> Cardinality({ k \in DOMAIN q : q[k] = x })]

StagedKey(ld) == <<BUCKET, load_to_bq_task(ld).source_objects>>

Artifact(t, ld, f, g) ==
    CASE t = "download_dataset_task" -> download_dataset_task(ld).outfile \in DOMAIN f
      [] t = "local_raw_to_gcs_task" ->
            <<BUCKET, local_raw_to_gcs_task(ld).object_name>> \in DOMAIN g
      [] t = "extract_data_task" -> <<AIRFLOW_HOME, DATASET_FILE_SUFFIX(ld), "parquet">> \in DOMAIN f
      [] t = "local_extracted_to_gcs_task" ->
            <<BUCKET, local_extracted_to_gcs_task(ld).object_name>> \in DOMAIN g
      [] OTHER -> TRUE

\* run r has a stage that failed for good, no stage after it was ever started
\* and Cleanup did not run
Halted(r) ==
    \E t \in Tasks :
        /\ r.ti[t] = "failed"
        /\ \A u \in Tasks : Stage(u) > Stage(t) => r.tries[u] = 0 /\ r.ti[u] # "success"
        /\ \A u \in Tasks : Stage(u) < Stage(t) => r.ti[u] = "success"
        /\ r.tries["cleanup_task"] = 0

\* C6: a run with a stage that failed for good never starts a later stage;
\* when the run ends as failed, what its succeeded stages wrote is in place;
\* and only a Load changes the table, only a Cleanup removes a local file,
\* nothing removes an object.
C6_HaltNoRollback ==
    [][/\ \A i \in DOMAIN runs' :
            /\ (\E t \in Tasks : runs'[i].ti[t] = "failed") => Halted(runs'[i])
            /\ (runs'[i].state = "failed") =>
                  /\ Halted(runs'[i])
                  /\ \A t \in Tasks : runs'[i].ti[t] # "running"
            /\ (i \in DOMAIN runs /\ runs[i].state = "running" /\ runs'[i].state = "failed")
                  => \A t \in Tasks : runs'[i].ti[t] = "success" => Artifact(t, runs'[i].ld, fs', gcs')
       /\ (bq' # bq) => Executes("load_to_bq_task")
       /\ (DOMAIN fs \ DOMAIN fs' # {}) => Executes("cleanup_task")
       /\ DOMAIN gcs \subseteq DOMAIN gcs']_vars

\* a run has ended as failed at Transform: its raw file and raw object exist
C6_Witness ==
    \E i \in DOMAIN runs :
        /\ runs[i].state = "failed"
        /\ runs[i].ti["extract_data_task"] = "failed"
        /\ runs[i].ti["cleanup_task"] = "upstream_failed"
        /\ download_dataset_task(runs[i].ld).outfile \in DOMAIN fs
        /\ <<BUCKET, local_raw_to_gcs_task(runs[i].ld).object_name>> \in DOMAIN gcs

LocalPaths(ld) ==
    {download_dataset_task(ld).outfile, local_extracted_to_gcs_task(ld).local_file}

\* C8: at most one run is running; every task instance that is running, or
\* has run, belongs to a run that is or was the only running one; so no run
\* with a local path in common with the running run is in progress.
C8_OneActiveRun ==
    /\ Cardinality(Active) <= 1
    /\ \A i \in DOMAIN runs :
          (runs[i].state = "queued") => \A t \in Tasks : runs[i].tries[t] = 0
    /\ \A i, k \in DOMAIN runs :
          (i # k /\ LocalPaths(runs[i].ld) \cap LocalPaths(runs[k].ld) # {})
              => ~(runs[i].state = "running" /\ runs[k].state = "running")

\* a run is at work on the files of 05:00 while the other run of that hour
\* waits in the queue
C8_Witness ==
    \E i, k \in DOMAIN runs :
        /\ i # k
        /\ LocalPaths(runs[i].ld) = LocalPaths(runs[k].ld)
        /\ runs[i].state = "running"
        /\ runs[i].ti["local_raw_to_gcs_task"] = "running"
        /\ runs[k].state = "queued"

RawKey(ld) == <<BUCKET, local_raw_to_gcs_task(ld).object_name>>

Names(ld) ==
    [fetch_writes |-> download_dataset_task(ld).outfile,
     raw_reads |-> local_raw_to_gcs_task(ld).local_file,
     raw_writes |-> <<local_raw_to_gcs_task(ld).bucket, local_raw_to_gcs_task(ld).object_name>>,
     extract_reads |-> <<AIRFLOW_HOME, extract_data_task(ld).file_suffix, "json">>,
     extract_writes |-> <<AIRFLOW_HOME, extract_data_task(ld).file_suffix, "parquet">>,
     staged_reads |-> local_extracted_to_gcs_task(ld).local_file,
     staged_writes |-> <<local_extracted_to_gcs_task(ld).bucket,
                         local_extracted_to_gcs_task(ld).object_name>>,
     load_reads |-> <<load_to_bq_task(ld).bucket, load_to_bq_task(ld).source_objects>>,
     cleanup_removes |-> {cleanup_task(ld).rm1, cleanup_task(ld).rm2}]

SameHour(a, b) == a.date = b.date /\ a.hour = b.hour

\* C10: what an executed stage reads, writes and deletes are the artifacts of
\* its logical date: the Raw Uploader and the Transformer read the path the
\* Fetcher writes, the Staged Uploader reads the path the Transformer writes,
\* the Loader reads the key the Staged Uploader writes, Cleanup removes those
\* two local paths; two logical dates of the same date and hour name the same
\* paths and keys, two of different hours share none.
C10_SameArtifacts ==
    /\ LET n == Names(last.ld)
       IN /\ last.task = "download_dataset_task" => last.writes \subseteq {n.fetch_writes}
          /\ last.task = "local_raw_to_gcs_task" =>
                last.reads \subseteq {n.fetch_writes} /\ last.writes \subseteq {n.raw_writes}
          /\ last.task = "extract_data_task" =>
                last.reads \subseteq {n.fetch_writes} /\ last.writes \subseteq {n.staged_reads}
          /\ last.task = "local_extracted_to_gcs_task" =>
                last.reads \subseteq {n.extract_writes} /\ last.writes \subseteq {n.staged_writes}
          /\ last.task = "load_to_bq_task" => last.reads \subseteq {n.staged_writes}
          /\ last.task = "cleanup_task" =>
                last.deletes \subseteq {n.fetch_writes, n.extract_writes}
          /\ last.ok => last.reads \cup last.writes \cup last.deletes # {}
    /\ \A a \in LogicalDates :
          /\ Names(a).raw_reads = Names(a).fetch_writes
          /\ Names(a).extract_reads = Names(a).fetch_writes
          /\ Names(a).staged_reads = Names(a).extract_writes
          /\ Names(a).load_reads = Names(a).staged_writes
          /\ Names(a).cleanup_removes = {Names(a).fetch_writes, Names(a).extract_writes}
          /\ WriteParquet(ValidDoc, extract_data_task(a).file_suffix, FreshEnv).writes
                = {Names(a).extract_writes}
    /\ \A a, b \in LogicalDates :
          /\ SameHour(a, b) => Names(a) = Names(b)
          /\ ~SameHour(a, b) =>
                /\ {Names(a).fetch_writes, Names(a).extract_writes}
                      \cap {Names(b).fetch_writes, Names(b).extract_writes} = {}
                /\ {Names(a).raw_writes, Names(a).staged_writes}
                      \cap {Names(b).raw_writes, Names(b).staged_writes} = {}

\* the Staged Uploader of 05:20 has overwritten the object the 05:00 run
\* left, read from the local file of that hour
C10_Witness ==
    /\ last.task = "local_extracted_to_gcs_task"
    /\ last.ok
    /\ last.ld.minute = 20
    /\ \E a \in LogicalDates :
          /\ a.minute = 0
          /\ last.writes = {Names(a).staged_writes}
          /\ last.reads = {Names(a).extract_writes}

====
